---- MODULE Spec2Model ----
(***************************************************************************)
(* Model of the ole-gate-count poller: the GateCounterService life cycle   *)
(* and polling pass (src/app/services/gate_counter.py), the lib_gate_counts*)
(* table as GateCountModel uses it (src/app/models/database.py) and the    *)
(* ProcessLock file lock (src/app/utils/process_lock.py).                  *)
(*                                                                         *)
(* Threads are numbered: 1, 2 and 3 are threads of the host that call      *)
(* start(), stop() and record_once(); the numbers above are the worker     *)
(* threads that start() creates.                                           *)
(*                                                                         *)
(* Environment assumptions, stated once:                                   *)
(*  - datetime.now() has microsecond resolution and two reads are always   *)
(*    separated by at least one statement, so every read of the clock      *)
(*    returns a larger value than the read before it (variable now).       *)
(*  - every service of a run is built from the same OLE_GATE_URLS.         *)
(*  - where the hourly alignment is checked (SpecClock) the clock counts   *)
(*    seconds, minute and second are read off it, and a sleep of n seconds *)
(*    takes at least n of them.                                            *)
(***************************************************************************)
EXTENDS Integers, Sequences, FiniteSets, TLC

\* ------------------------------------------------------------------ bounds
\* polling passes of one run when they run one after another
MaxPass == 3
\* hourly waits and polling passes started in one run when threads interleave
MaxCycles == 2
\* seconds of one hourly wait; the code computes a value in 1..3600
MaxWait == 2
\* worker threads one run may create
MaxWorkers == 2
\* processes that use the same ProcessLock lock_name
MaxProcs == 2
\* files ever created under the lock file's path in one run
MaxInodes == 2
\* largest zero-based position of an endpoint the naming rule is applied to
MaxIndex == 3
\* seconds by which the sleeps of one hourly wait may overrun in total
MaxLate == 1

\* caller threads: 1 and 2 belong to service 1, 3 to service 2
Callers == {1, 2, 3}
Workers == {3 + k : k \in 1..MaxWorkers}
Threads == Callers \cup Workers
Svcs == {1, 2}
CallerSvc(c) == IF c = 3 THEN 2 ELSE 1

\* ------------------------------------------------------------- endpoint URLs
\* A URL is a sequence of characters.
U_south1 == <<"s", "o", "u", "t", "h", "-", "1">>
U_south2 == <<"s", "o", "u", "t", "h", "-", "2">>
U_SOUTH == <<"S", "o", "U", "T", "H">>
U_west == <<"w", "e", "s", "t">>
U_WEST == <<"W", "E", "S", "T">>
U_front == <<"f", "r", "o", "n", "t">>
U_southwest == <<"w", "e", "s", "t", "s", "o", "u", "t", "h">>
U_spaced == <<" ", "w", "e", "s", "t", " ">>

\* configured endpoint lists (distinct URLs each), the empty one included
Configs ==
    { <<>>, <<U_south1>>, <<U_front, U_west>>, <<U_south1, U_south2>>,
      <<U_SOUTH, U_front>> }

UpperCase == <<"A", "B", "C", "D", "E", "F", "G", "H", "I", "J", "K", "L", "M",
               "N", "O", "P", "Q", "R", "S", "T", "U", "V", "W", "X", "Y", "Z">>
LowerCase == <<"a", "b", "c", "d", "e", "f", "g", "h", "i", "j", "k", "l", "m",
               "n", "o", "p", "q", "r", "s", "t", "u", "v", "w", "x", "y", "z">>

\* str.lower() on one character and on a string
lower_char(ch) ==
    IF \E k \in 1..Len(UpperCase) : UpperCase[k] = ch
    THEN LowerCase[CHOOSE k \in 1..Len(UpperCase) : UpperCase[k] = ch]
    ELSE ch
lower(url) == [k \in 1..Len(url) |-> lower_char(url[k])]

\* Python's  sub in s  on strings
contains(s, sub) ==
    \E k \in 0..(Len(s) - Len(sub)) :
        \A j \in 1..Len(sub) : s[k + j] = sub[j]

W_south == <<"s", "o", "u", "t", "h">>
W_west == <<"w", "e", "s", "t">>

\* str.strip(), for the whitespace character that occurs in the URLs here
RECURSIVE lstrip(_)
lstrip(s) == IF s # <<>> /\ Head(s) = " " THEN lstrip(Tail(s)) ELSE s
RECURSIVE rstrip(_)
rstrip(s) == IF s # <<>> /\ s[Len(s)] = " " THEN rstrip(SubSeq(s, 1, Len(s) - 1)) ELSE s
strip(s) == rstrip(lstrip(s))

\* the gate_name expression of record_gate_counts() in the standalone poller
\* src/gate_counter.py, for element url at position i of GATE_URLS
standalone_gate_name(url, i) ==
    IF contains(strip(url), W_south) THEN "FM South gate"
    ELSE IF contains(strip(url), W_west) THEN "FM West gate"
    ELSE "Gate " \o ToString(i + 1)

\* GateCounterService._get_gate_name(url, index), index zero-based
get_gate_name(url, index) ==
    IF contains(lower(url), W_south) THEN "FM South gate"
    ELSE IF contains(lower(url), W_west) THEN "FM West gate"
    ELSE "Gate " \o ToString(index + 1)

\* ----------------------------------------------------------- sensor responses
\* One XML child element: absent, or present with integer or other text.
Elem(n) == [present |-> TRUE, isint |-> TRUE, val |-> n]
NoElem == [present |-> FALSE, isint |-> FALSE, val |-> 0]
BadText == [present |-> TRUE, isint |-> FALSE, val |-> 0]

\* What requests.get produced: a transport error or timeout (raised), or a
\* response with a status code and a body that is well-formed XML or not.
Resp(raised, status, wellformed, c0, c1, c2) ==
    [raised |-> raised, status_code |-> status, wellformed |-> wellformed,
     count0 |-> c0, count1 |-> c1, count2 |-> c2]
NoResp == Resp(FALSE, 0, FALSE, NoElem, NoElem, NoElem)

\* cumulative counters <<alarm, incoming, outgoing>> a sensor may report
Samples == { <<5, 120, 80>>, <<7, 130, 85>> }

GoodResponses ==
    { Resp(FALSE, 200, TRUE, Elem(s[1]), Elem(s[2]), Elem(s[3])) : s \in Samples }
BadResponses ==
    { Resp(TRUE, 0, FALSE, NoElem, NoElem, NoElem),
      Resp(FALSE, 500, TRUE, Elem(5), Elem(120), Elem(80)),
      Resp(FALSE, 200, FALSE, NoElem, NoElem, NoElem),
      Resp(FALSE, 200, TRUE, Elem(5), NoElem, Elem(80)),
      Resp(FALSE, 200, TRUE, NoElem, Elem(120), Elem(80)),
      Resp(FALSE, 200, TRUE, Elem(5), Elem(120), BadText) }
Responses == GoodResponses \cup BadResponses
\* one valid response and one 500, for the runs in which threads interleave
FewResponses ==
    { Resp(FALSE, 200, TRUE, Elem(5), Elem(120), Elem(80)),
      Resp(FALSE, 500, TRUE, Elem(5), Elem(120), Elem(80)) }

\* int(root.find(name).text): the error it raises, or "ok"
int_of(elem) ==
    IF ~elem.present THEN "missing_element"
    ELSE IF ~elem.isint THEN "non_integer"
    ELSE "ok"

\* parse_outcome without the status check
parse_outcome_any_status(resp) ==
    IF resp.raised THEN "transport_error"
    ELSE IF ~resp.wellformed THEN "malformed_xml"
    ELSE IF int_of(resp.count0) # "ok" THEN int_of(resp.count0)
    ELSE IF int_of(resp.count1) # "ok" THEN int_of(resp.count1)
    ELSE int_of(resp.count2)

\* _update_gate_count from the status check to the three int() calls:
\* the first failure on the way, or "ok"
parse_outcome(resp) ==
    IF resp.raised THEN "transport_error"
    ELSE IF resp.status_code # 200 THEN "bad_status"
    ELSE IF ~resp.wellformed THEN "malformed_xml"
    ELSE IF int_of(resp.count0) # "ok" THEN int_of(resp.count0)
    ELSE IF int_of(resp.count1) # "ok" THEN int_of(resp.count1)
    ELSE int_of(resp.count2)

NoCounts == [alarm_count |-> 0, incoming |-> 0, outgoing |-> 0]
parse_counts(resp) ==
    [alarm_count |-> resp.count0.val, incoming |-> resp.count1.val,
     outgoing |-> resp.count2.val]

\* ------------------------------------------------------------------- state
VARIABLES
    gate_urls,  \* GateCounterService.gate_urls (the same in every service)
    running,    \* running[s]: GateCounterService.running
    thread,     \* thread[s]: GateCounterService.thread, 0 for None
    pc,         \* pc[t]: where thread t is in the code
    tsvc,       \* tsvc[t]: the service whose method thread t runs, 0 if none
    s_left,     \* s_left[t]: iterations left of  for _ in range(s)
    idx,        \* idx[t]: index i of enumerate(self.gate_urls), zero-based
    ts,         \* ts[t]: local timestamp of _update_gate_count
    resp,       \* resp[t]: local resp of _update_gate_count
    cur,        \* cur[t]: locals alarm_count, incoming, outgoing
    last,       \* last[t]: local last, <<>> for None, <<row>> otherwise
    rows,       \* table lib_gate_counts, in insertion order
    now,        \* the wall clock
    passlog,    \* observation: passlog[t] lists, for the pass thread t runs or
                \* ran last, each gate processed and how its processing ended
    sensor,     \* environment: the responses the sensors of this run may give
    store_errors, \* environment: whether the store may raise in this run
    budget,     \* model bound: passes and hourly waits this run may still start
    stopped_at, \* observation: stopped_at[t] is the number (from 1) of the gate
                \* worker t was processing when stop() cleared its flag, else 0
    noop_calls, \* observation: the methods of the service that were called
                \* and returned while no endpoint was configured
    fetch_at,   \* observation, kept where the fetch is timed (SpecStamp):
                \* fetch_at[t] is the instant at which thread t issued its
                \* last requests.get, 0 before the first
    wait_from,  \* observation: the clock reading from which the wait in
                \* progress, or the last one, was computed
    pass_starts, \* observation: the clock readings at which the worker called
                \* _record_gate_counts(), where the clock counts seconds
    arg_url,    \* the naming rule applied on its own: the URL it is given
    arg_index,  \* and the zero-based position
    name_service, \* what _get_gate_name returned for them, "" before the call
    name_standalone, \* what the standalone poller computed, "" before
    lock_path,  \* the file at ProcessLock.lock_file_path: its inode, 0 if absent
    ninodes,    \* inodes created so far under that path (inodes 1..ninodes)
    content,    \* content[i]: 0 for an empty file, p for the line "PID: p"
    flock_owner, \* flock_owner[i]: the process whose open file holds LOCK_EX
                \* on inode i, 0 if none
    lock_file,  \* lock_file[p]: ProcessLock.lock_file of process p, as the inode
                \* it has open, 0 for None
    lpc,        \* lpc[p]: where process p is in acquire() or release()
    holding,    \* observation: holding[p] from the moment acquire() returns True
                \* to the moment release() gives the lock up
    last_call   \* observation: last_call[p] is how the last call of process p on
                \* its ProcessLock ended if that left self.lock_file None,
                \* "none" before the first call and from the next acquire() on

svcVars == <<gate_urls, running, thread, pc, tsvc, s_left, idx, ts, resp, cur,
             last, rows, now, passlog, sensor, store_errors, budget,
             stopped_at, noop_calls, wait_from, pass_starts, fetch_at>>
clockVars == <<wait_from, pass_starts>>
envVars == <<gate_urls, sensor, store_errors>>
lockVars == <<lock_path, ninodes, content, flock_owner, lock_file, lpc, holding,
              last_call>>
nameVars == <<arg_url, arg_index, name_service, name_standalone>>
vars == <<svcVars, lockVars, nameVars>>

Procs == 1..MaxProcs
Inodes == 1..MaxInodes

\* ProcessLock.__init__ in every process; no lock file on disk
LockInit ==
    /\ lock_path = 0
    /\ ninodes = 0
    /\ content = [i \in Inodes |-> 0]
    /\ flock_owner = [i \in Inodes |-> 0]
    /\ lock_file = [p \in Procs |-> 0]
    /\ lpc = [p \in Procs |-> "idle"]
    /\ holding = [p \in Procs |-> FALSE]
    /\ last_call = [p \in Procs |-> "none"]

PassPcs == {"gate_begin", "fetch", "parse", "get_last", "insert"}
WaitPcs == {"wait_check", "sleeping"}

\* the naming rule is not being applied on its own
NamesIdle ==
    /\ arg_url = <<>>
    /\ arg_index = 0
    /\ name_service = ""
    /\ name_standalone = ""

\* GateCounterService.__init__ in every service; nothing stored yet
SvcInit(cfgs, resps, errs, passes) ==
    /\ gate_urls \in cfgs
    /\ sensor = resps
    /\ store_errors = errs
    /\ budget = passes
    /\ running = [s \in Svcs |-> FALSE]
    /\ thread = [s \in Svcs |-> 0]
    /\ pc = [t \in Threads |-> IF t \in Callers THEN "idle" ELSE "unborn"]
    /\ tsvc = [t \in Threads |-> IF t \in Callers THEN CallerSvc(t) ELSE 0]
    /\ s_left = [t \in Threads |-> 0]
    /\ idx = [t \in Threads |-> 0]
    /\ ts = [t \in Threads |-> 0]
    /\ resp = [t \in Threads |-> NoResp]
    /\ cur = [t \in Threads |-> NoCounts]
    /\ last = [t \in Threads |-> <<>>]
    /\ rows = <<>>
    /\ passlog = [t \in Threads |-> <<>>]
    /\ stopped_at = [t \in Threads |-> 0]
    /\ noop_calls = {}
    /\ wait_from = 0
    /\ pass_starts = <<>>
    /\ fetch_at = [t \in Threads |-> 0]

InitWith(cfgs, resps, errs, passes) ==
    SvcInit(cfgs, resps, errs, passes) /\ now = 1 /\ LockInit /\ NamesIdle

\* ------------------------------------------------------------ the record store
\* the row of insert_count(timestamp, gate_name, alarm_count, alarm_diff,
\* incoming, incoming_diff, outgoing, outgoing_diff)
NewRow(timestamp, gate_name, alarm_count, alarm_diff, incoming, incoming_diff, outgoing, outgoing_diff) ==
    [timestamp |-> timestamp, gate_name |-> gate_name,
     alarm_count |-> alarm_count, alarm_diff |-> alarm_diff,
     incoming_patrons_count |-> incoming, incoming_diff |-> incoming_diff,
     outgoing_patrons_count |-> outgoing, outgoing_diff |-> outgoing_diff]

RowsOf(gate_name) == { k \in 1..Len(rows) : rows[k].gate_name = gate_name }

\* get_last_count with the ORDER BY reversed: the oldest row of the gate
get_last_count_oldest(gate_name) ==
    IF RowsOf(gate_name) = {} THEN { <<>> }
    ELSE { <<rows[k]>> : k \in { j \in RowsOf(gate_name) :
               \A i \in RowsOf(gate_name) : rows[j].timestamp <= rows[i].timestamp } }

\* GateCountModel.get_last_count: SELECT ... WHERE gate_name = %s ORDER BY
\* timestamp DESC LIMIT 1. The result is <<>> (None) or <<row>>; rows that tie
\* on the largest timestamp may come back in any order, so this is a set.
get_last_count(gate_name) ==
    IF RowsOf(gate_name) = {} THEN { <<>> }
    ELSE { <<rows[k]>> : k \in { j \in RowsOf(gate_name) :
               \A i \in RowsOf(gate_name) : rows[i].timestamp <= rows[j].timestamp } }

\* GateCountModel.insert_count: INSERT one row and commit
insert_count(row) == rows' = Append(rows, row)

\* "Calculate diffs" of _update_gate_count
diff(current, lst, field) == IF lst = <<>> THEN 0 ELSE current - lst[1][field]

\* --------------------------------------------------------- the polling pass
GateName(t) == get_gate_name(gate_urls[idx[t] + 1], idx[t])

\* record_once() ending in the worker's loop instead of returning
PassReturn_loop(t) == "loop_head"

\* where a thread continues when its pass is over: the worker at the head of
\* its while loop, a record_once caller back in the host
PassReturn(t) == IF t \in Workers THEN "loop_head" ELSE "idle"

\* _record_gate_counts is entered: the for loop starts at index 0
BeginPass(t) ==
    /\ passlog' = [passlog EXCEPT ![t] = <<>>]
    /\ idx' = [idx EXCEPT ![t] = 0]
    /\ pc' = [pc EXCEPT ![t] = IF gate_urls = <<>> THEN PassReturn(t) ELSE "gate_begin"]

\* _update_gate_count returns for gate idx[t]; the for loop of
\* _record_gate_counts takes the next URL, or the pass is over
NextGate(t, outcome) ==
    /\ passlog' = [passlog EXCEPT ![t] =
           Append(@, [gate_name |-> GateName(t), outcome |-> outcome,
                      timestamp |-> ts[t]])]
    /\ resp' = [resp EXCEPT ![t] = NoResp]
    /\ cur' = [cur EXCEPT ![t] = NoCounts]
    /\ last' = [last EXCEPT ![t] = <<>>]
    /\ IF idx[t] + 1 < Len(gate_urls)
       THEN /\ idx' = [idx EXCEPT ![t] = @ + 1]
            /\ pc' = [pc EXCEPT ![t] = "gate_begin"]
       ELSE /\ idx' = [idx EXCEPT ![t] = 0]
            /\ pc' = [pc EXCEPT ![t] = PassReturn(t)]

\* the handler re-raising: the error leaves _update_gate_count and ends the pass
GateFailed_reraise(t, outcome) ==
    /\ passlog' = [passlog EXCEPT ![t] =
           Append(@, [gate_name |-> GateName(t), outcome |-> outcome,
                      timestamp |-> ts[t]])]
    /\ resp' = [resp EXCEPT ![t] = NoResp]
    /\ cur' = [cur EXCEPT ![t] = NoCounts]
    /\ last' = [last EXCEPT ![t] = <<>>]
    /\ idx' = [idx EXCEPT ![t] = 0]
    /\ pc' = [pc EXCEPT ![t] = PassReturn(t)]

\* except Exception as e: logger.error(...) - the error is absorbed and
\* _update_gate_count returns normally; so does the return after a bad status
GateFailed(t, outcome) == NextGate(t, outcome)

\* timestamp = datetime.now()
TakeTimestamp(t) ==
    /\ pc[t] = "gate_begin"
    /\ ts' = [ts EXCEPT ![t] = now]
    /\ now' = now + 1
    /\ pc' = [pc EXCEPT ![t] = "fetch"]
    /\ UNCHANGED <<envVars, lockVars, nameVars, clockVars, fetch_at, noop_calls, running, thread, tsvc, s_left, idx, resp, cur,
                   last, rows, passlog, budget, stopped_at>>

\* resp = requests.get(gate_url, timeout=30)
Fetch(t) ==
    /\ pc[t] = "fetch"
    /\ \E r \in sensor : resp' = [resp EXCEPT ![t] = r]
    /\ pc' = [pc EXCEPT ![t] = "parse"]
    /\ UNCHANGED <<envVars, lockVars, nameVars, clockVars, fetch_at, noop_calls, running, thread, tsvc, s_left, idx, ts, cur,
                   last, rows, now, passlog, budget, stopped_at>>

\* resp = requests.get(gate_url, timeout=30), with the instant at which the
\* request is issued noted: the clock stands at now, past every reading taken
\* before
FetchTimed(t) ==
    /\ pc[t] = "fetch"
    /\ \E r \in sensor : resp' = [resp EXCEPT ![t] = r]
    /\ fetch_at' = [fetch_at EXCEPT ![t] = now]
    /\ pc' = [pc EXCEPT ![t] = "parse"]
    /\ UNCHANGED <<envVars, lockVars, nameVars, clockVars, noop_calls, running, thread, tsvc,
                   s_left, idx, ts, cur, last, rows, now, passlog, budget, stopped_at>>

\* the status check, ElementTree.fromstring and the three int() calls
Parse(t) ==
    /\ pc[t] = "parse"
    /\ IF parse_outcome(resp[t]) = "ok"
       THEN /\ cur' = [cur EXCEPT ![t] = parse_counts(resp[t])]
            /\ pc' = [pc EXCEPT ![t] = "get_last"]
            /\ UNCHANGED <<idx, resp, last, passlog>>
       ELSE GateFailed(t, parse_outcome(resp[t]))
    /\ UNCHANGED <<envVars, lockVars, nameVars, clockVars, fetch_at, noop_calls, running, thread, tsvc, s_left, ts, rows, now, budget,
                   stopped_at>>

\* last = GateCountModel.get_last_count(gate_name), which may raise
GetLast(t) ==
    /\ pc[t] = "get_last"
    /\ \/ /\ \E l \in get_last_count(GateName(t)) : last' = [last EXCEPT ![t] = l]
          /\ pc' = [pc EXCEPT ![t] = "insert"]
          /\ UNCHANGED <<idx, resp, cur, passlog>>
       \/ /\ store_errors
          /\ GateFailed(t, "store_read_error")
    /\ UNCHANGED <<envVars, lockVars, nameVars, clockVars, fetch_at, noop_calls, running, thread, tsvc, s_left, ts, rows, now, budget,
                   stopped_at>>

\* the diffs and GateCountModel.insert_count(...), which may raise
Insert(t) ==
    /\ pc[t] = "insert"
    /\ \/ /\ insert_count(NewRow(ts[t], GateName(t),
                 cur[t].alarm_count,
                 diff(cur[t].alarm_count, last[t], "alarm_count"),
                 cur[t].incoming,
                 diff(cur[t].incoming, last[t], "incoming_patrons_count"),
                 cur[t].outgoing,
                 diff(cur[t].outgoing, last[t], "outgoing_patrons_count")))
          /\ NextGate(t, "ok")
       \/ /\ store_errors
          /\ GateFailed(t, "store_write_error")
          /\ rows' = rows
    /\ UNCHANGED <<envVars, lockVars, nameVars, clockVars, fetch_at, noop_calls, running, thread, tsvc, s_left, ts, now, budget,
                   stopped_at>>

\* GateCounterService.record_once(), up to the call of _record_gate_counts
record_once(c) ==
    /\ pc[c] = "idle"
    /\ IF gate_urls = <<>>
       THEN /\ noop_calls' = noop_calls \cup {"record_once"}
            /\ UNCHANGED <<pc, idx, passlog, budget>>
       ELSE /\ budget > 0
            /\ budget' = budget - 1
            /\ BeginPass(c)
            /\ UNCHANGED noop_calls
    /\ UNCHANGED <<envVars, lockVars, nameVars, clockVars, fetch_at, running, thread, tsvc, s_left, ts, resp, cur,
                   last, rows, now, stopped_at>>

PassStep(t) == TakeTimestamp(t) \/ Fetch(t) \/ Parse(t) \/ GetLast(t) \/ Insert(t)
PassStepTimed(t) == TakeTimestamp(t) \/ FetchTimed(t) \/ Parse(t) \/ GetLast(t) \/ Insert(t)

\* ------------------------------------------------------------- life cycle
Unborn == { w \in Workers : pc[w] = "unborn" }
Starting == { c \in Callers : pc[c] \in {"start_set", "start_spawn"} }

\* start() without the  if not self.gate_urls:  test
StartCall_unguarded(c) ==
    /\ pc[c] = "idle"
    /\ IF running[tsvc[c]]
       THEN UNCHANGED pc
       ELSE /\ Cardinality(Unborn) > Cardinality(Starting)
            /\ pc' = [pc EXCEPT ![c] = "start_set"]
    /\ noop_calls' = IF gate_urls = <<>> THEN noop_calls \cup {"start"} ELSE noop_calls
    /\ UNCHANGED <<envVars, lockVars, nameVars, clockVars, fetch_at, running, thread, tsvc, s_left, idx, ts, resp, cur,
                   last, rows, now, passlog, budget, stopped_at>>

\* start(): the two checks. A call that passes them goes on to set running.
\* (Model bound: a call passes them only while a worker thread is left for it.)
StartCall(c) ==
    /\ pc[c] = "idle"
    /\ IF gate_urls = <<>> \/ running[tsvc[c]]
       THEN UNCHANGED pc
       ELSE /\ Cardinality(Unborn) > Cardinality(Starting)
            /\ pc' = [pc EXCEPT ![c] = "start_set"]
    /\ noop_calls' = IF gate_urls = <<>> THEN noop_calls \cup {"start"} ELSE noop_calls
    /\ UNCHANGED <<envVars, lockVars, nameVars, clockVars, fetch_at, running, thread, tsvc, s_left, idx, ts, resp, cur,
                   last, rows, now, passlog, budget, stopped_at>>

\* self.running = True
StartSet(c) ==
    /\ pc[c] = "start_set"
    /\ running' = [running EXCEPT ![tsvc[c]] = TRUE]
    /\ stopped_at' = [t \in Threads |-> IF tsvc[t] = tsvc[c] THEN 0 ELSE stopped_at[t]]
    /\ pc' = [pc EXCEPT ![c] = "start_spawn"]
    /\ UNCHANGED <<envVars, lockVars, nameVars, clockVars, fetch_at, noop_calls, thread, tsvc, s_left, idx, ts, resp, cur, last,
                   rows, now, passlog, budget>>

\* self.thread = threading.Thread(target=self._worker, daemon=True)
\* self.thread.start()
StartSpawn(c) ==
    /\ pc[c] = "start_spawn"
    /\ LET w == CHOOSE v \in Unborn : \A u \in Unborn : v <= u
       IN  /\ thread' = [thread EXCEPT ![tsvc[c]] = w]
           /\ tsvc' = [tsvc EXCEPT ![w] = tsvc[c]]
           /\ pc' = [pc EXCEPT ![c] = "idle", ![w] = "loop_head"]
    /\ UNCHANGED <<envVars, lockVars, nameVars, clockVars, fetch_at, noop_calls, running, s_left, idx, ts, resp, cur, last, rows,
                   now, passlog, budget, stopped_at>>

\* stop(): self.running = False
StopCall(c) ==
    /\ pc[c] = "idle"
    /\ running' = [running EXCEPT ![tsvc[c]] = FALSE]
    /\ stopped_at' = [t \in Threads |->
           IF t \in Workers /\ tsvc[t] = tsvc[c] /\ running[tsvc[c]] /\ pc[t] \in PassPcs
           THEN idx[t] + 1 ELSE stopped_at[t]]
    /\ pc' = [pc EXCEPT ![c] = IF thread[tsvc[c]] # 0 THEN "stop_join" ELSE "idle"]
    /\ noop_calls' = IF gate_urls = <<>> THEN noop_calls \cup {"stop"} ELSE noop_calls
    /\ UNCHANGED <<envVars, lockVars, nameVars, clockVars, fetch_at, thread, tsvc, s_left, idx, ts, resp, cur, last,
                   rows, now, passlog, budget>>

\* self.thread.join(timeout=5) returns: the worker has ended or 5 s are over
StopJoin(c) ==
    /\ pc[c] = "stop_join"
    /\ pc' = [pc EXCEPT ![c] = "idle"]
    /\ UNCHANGED <<envVars, lockVars, nameVars, clockVars, fetch_at, noop_calls, running, thread, tsvc, s_left, idx, ts, resp, cur,
                   last, rows, now, passlog, budget, stopped_at>>

\* _worker: while self.running, then s = 3600 - (now.minute * 60 + now.second),
\* a number in 1..3600 (here 1..MaxWait); the loop ends when running is False.
\* (Model bound: budget waits and record_once passes are started.)
LoopHead(w) ==
    /\ pc[w] = "loop_head"
    /\ IF running[tsvc[w]]
       THEN /\ budget > 0
            /\ budget' = budget - 1
            /\ \E s \in 1..MaxWait : s_left' = [s_left EXCEPT ![w] = s]
            /\ pc' = [pc EXCEPT ![w] = "wait_check"]
       ELSE /\ pc' = [pc EXCEPT ![w] = "finished"]
            /\ UNCHANGED <<s_left, budget>>
    /\ UNCHANGED <<envVars, lockVars, nameVars, clockVars, fetch_at, noop_calls, running, thread, tsvc, idx, ts, resp, cur, last,
                   rows, now, passlog, stopped_at>>

\* for _ in range(s): if not self.running: return
WaitCheck(w) ==
    /\ pc[w] = "wait_check"
    /\ pc' = [pc EXCEPT ![w] = IF running[tsvc[w]] THEN "sleeping" ELSE "finished"]
    /\ UNCHANGED <<envVars, lockVars, nameVars, clockVars, fetch_at, noop_calls, running, thread, tsvc, s_left, idx, ts, resp, cur,
                   last, rows, now, passlog, budget, stopped_at>>

\* time.sleep(1) returns; the next iteration of the for loop, or, when range(s)
\* is used up, self._record_gate_counts()
Sleep(w) ==
    /\ pc[w] = "sleeping"
    /\ s_left' = [s_left EXCEPT ![w] = @ - 1]
    /\ IF s_left[w] - 1 = 0
       THEN BeginPass(w)
       ELSE /\ pc' = [pc EXCEPT ![w] = "wait_check"]
            /\ UNCHANGED <<idx, passlog>>
    /\ UNCHANGED <<envVars, lockVars, nameVars, clockVars, fetch_at, noop_calls, running, thread, tsvc, ts, resp, cur, last, rows,
                   now, budget, stopped_at>>

\* time.sleep(60) of the worker's exception handler
CoolDownSeconds == 60

\* the worker without its try/except: the exception ends the thread
PassRaise_unhandled(w) ==
    /\ w \in Workers
    /\ pc[w] \in PassPcs
    /\ passlog' = [passlog EXCEPT ![w] =
           Append(@, [gate_name |-> GateName(w), outcome |-> "escaped",
                      timestamp |-> ts[w]])]
    /\ resp' = [resp EXCEPT ![w] = NoResp]
    /\ cur' = [cur EXCEPT ![w] = NoCounts]
    /\ last' = [last EXCEPT ![w] = <<>>]
    /\ idx' = [idx EXCEPT ![w] = 0]
    /\ pc' = [pc EXCEPT ![w] = "finished"]
    /\ UNCHANGED <<envVars, lockVars, nameVars, clockVars, fetch_at, noop_calls, running, thread, tsvc, s_left, ts,
                   rows, now, budget, stopped_at>>

\* an exception leaves self._record_gate_counts() in the worker (one that the
\* handler of _update_gate_count does not absorb, such as an error inside that
\* handler): except Exception in _worker logs it and calls time.sleep(60)
PassRaise(w) ==
    /\ w \in Workers
    /\ pc[w] \in PassPcs
    /\ passlog' = [passlog EXCEPT ![w] =
           Append(@, [gate_name |-> GateName(w), outcome |-> "escaped",
                      timestamp |-> ts[w]])]
    /\ resp' = [resp EXCEPT ![w] = NoResp]
    /\ cur' = [cur EXCEPT ![w] = NoCounts]
    /\ last' = [last EXCEPT ![w] = <<>>]
    /\ idx' = [idx EXCEPT ![w] = 0]
    /\ s_left' = [s_left EXCEPT ![w] = CoolDownSeconds]
    /\ pc' = [pc EXCEPT ![w] = "cooldown"]
    /\ UNCHANGED <<envVars, lockVars, nameVars, clockVars, fetch_at, noop_calls, running, thread, tsvc, ts,
                   rows, now, budget, stopped_at>>

\* time.sleep(60) returns; the worker is back at  while self.running
CoolDown(w) ==
    /\ pc[w] = "cooldown"
    /\ s_left' = [s_left EXCEPT ![w] = 0]
    /\ pc' = [pc EXCEPT ![w] = "loop_head"]
    /\ UNCHANGED <<envVars, lockVars, nameVars, clockVars, fetch_at, noop_calls, running, thread, tsvc, idx, ts,
                   resp, cur, last, rows, now, passlog, budget, stopped_at>>

\* the wall clock in seconds: datetime.now().minute and .second
SecondsPerHour == 3600
Minute(t) == (t \div 60) % 60
Second(t) == t % 60
Hour(t) == t \div SecondsPerHour

\* the wait computed from whole minutes only
wait_seconds_whole_minutes(minute, second) == SecondsPerHour - minute * 60

\* s = 3600 - (now.minute * 60 + now.second)
wait_seconds(minute, second) == SecondsPerHour - (minute * 60 + second)

\* _worker with the clock in seconds: now = datetime.now() and s computed
\* from it. (Model bound: budget waits are started.)
HourCompute(w) ==
    /\ pc[w] = "loop_head"
    /\ running[tsvc[w]]
    /\ budget > 0
    /\ budget' = budget - 1
    /\ wait_from' = now
    /\ s_left' = [s_left EXCEPT ![w] = wait_seconds(Minute(now), Second(now))]
    /\ pc' = [pc EXCEPT ![w] = "hour_sleep"]
    /\ UNCHANGED <<envVars, lockVars, nameVars, fetch_at, noop_calls, running, thread, tsvc, idx, ts,
                   resp, cur, last, rows, now, passlog, stopped_at, pass_starts>>

\* the s sleeps of one second, each taking a second or more, with running
\* set throughout; then self._record_gate_counts()
HourSleep(w) ==
    /\ pc[w] = "hour_sleep"
    /\ \E late \in 0..MaxLate :
          /\ now' = now + s_left[w] + late
          /\ pass_starts' = Append(pass_starts, now + s_left[w] + late)
    /\ s_left' = [s_left EXCEPT ![w] = 0]
    /\ BeginPass(w)
    /\ UNCHANGED <<envVars, lockVars, nameVars, fetch_at, noop_calls, running, thread, tsvc, ts,
                   resp, cur, last, rows, budget, stopped_at, wait_from>>

start(c) == StartCall(c) \/ StartSet(c) \/ StartSpawn(c)
stop(c) == StopCall(c) \/ StopJoin(c)
worker(w) == LoopHead(w) \/ WaitCheck(w) \/ Sleep(w) \/ PassStep(w)
worker_except(w) == PassRaise(w) \/ CoolDown(w)

\* ------------------------------------------------------------ ProcessLock
\* open(self.lock_file_path, "x"): fails when the file exists
AcqOpen_exclusive(p) ==
    /\ lpc[p] = "idle"
    /\ lock_file[p] = 0
    /\ IF lock_path = 0
       THEN /\ ninodes < MaxInodes
            /\ ninodes' = ninodes + 1
            /\ lock_path' = ninodes + 1
            /\ lock_file' = [lock_file EXCEPT ![p] = ninodes + 1]
            /\ lpc' = [lpc EXCEPT ![p] = "acq_flock"]
       ELSE /\ lpc' = [lpc EXCEPT ![p] = "acq_except"]
            /\ UNCHANGED <<ninodes, lock_path, lock_file>>
    /\ last_call' = [last_call EXCEPT ![p] = "none"]
    /\ UNCHANGED <<svcVars, nameVars, content, flock_owner, holding>>

\* acquire(): self.lock_file = open(self.lock_file_path, "w") creates the file
\* or truncates the one that is there. (Callers call acquire() on a lock
\* object that holds no open file; model bound: MaxInodes files are created.)
AcqOpen(p) ==
    /\ lpc[p] = "idle"
    /\ lock_file[p] = 0
    /\ IF lock_path = 0
       THEN /\ ninodes < MaxInodes
            /\ ninodes' = ninodes + 1
            /\ lock_path' = ninodes + 1
            /\ lock_file' = [lock_file EXCEPT ![p] = ninodes + 1]
            /\ UNCHANGED content
       ELSE /\ content' = [content EXCEPT ![lock_path] = 0]
            /\ lock_file' = [lock_file EXCEPT ![p] = lock_path]
            /\ UNCHANGED <<ninodes, lock_path>>
    /\ lpc' = [lpc EXCEPT ![p] = "acq_flock"]
    /\ last_call' = [last_call EXCEPT ![p] = "none"]
    /\ UNCHANGED <<svcVars, nameVars, flock_owner, holding>>

\* fcntl.flock(fd, LOCK_EX | LOCK_NB): taken if no other open file holds the
\* lock on this inode, IOError otherwise
AcqFlock(p) ==
    /\ lpc[p] = "acq_flock"
    /\ IF flock_owner[lock_file[p]] = 0
       THEN /\ flock_owner' = [flock_owner EXCEPT ![lock_file[p]] = p]
            /\ lpc' = [lpc EXCEPT ![p] = "acq_write"]
       ELSE /\ lpc' = [lpc EXCEPT ![p] = "acq_except"]
            /\ UNCHANGED flock_owner
    /\ UNCHANGED <<svcVars, nameVars, lock_path, ninodes, content, lock_file, holding, last_call>>

\* self.lock_file.write(f"PID: {os.getpid()}\n"); flush(); return True
AcqWrite(p) ==
    /\ lpc[p] = "acq_write"
    /\ content' = [content EXCEPT ![lock_file[p]] = p]
    /\ holding' = [holding EXCEPT ![p] = TRUE]
    /\ lpc' = [lpc EXCEPT ![p] = "idle"]
    /\ UNCHANGED <<svcVars, nameVars, lock_path, ninodes, flock_owner, lock_file, last_call>>

\* except (IOError, OSError): close the file if one is open; return False
AcqExcept(p) ==
    /\ lpc[p] = "acq_except"
    /\ lock_file' = [lock_file EXCEPT ![p] = 0]
    /\ last_call' = [last_call EXCEPT ![p] = "acquire_false"]
    /\ lpc' = [lpc EXCEPT ![p] = "idle"]
    /\ UNCHANGED <<svcVars, nameVars, lock_path, ninodes, content, flock_owner, holding>>

\* what a release() that found self.lock_file None came after: no acquire()
\* at all, an acquire() that returned False, or a release()
NoOpRelease(before) ==
    IF before = "none" THEN "release_never_acquired"
    ELSE IF before = "acquire_false" THEN "release_after_failed"
    ELSE IF before = "release" THEN "release_twice"
    ELSE before

\* release() without the  if self.lock_file:  test: the finally clause runs and
\* unlinks the file at the path
RelUnlock_unchecked(p) ==
    /\ lpc[p] = "idle"
    /\ IF lock_file[p] = 0
       THEN /\ last_call' = [last_call EXCEPT ![p] = NoOpRelease(@)]
            /\ lpc' = [lpc EXCEPT ![p] = "rel_unlink"]
            /\ UNCHANGED <<flock_owner, holding>>
       ELSE /\ flock_owner' = [flock_owner EXCEPT ![lock_file[p]] =
                                   IF @ = p THEN 0 ELSE @]
            /\ holding' = [holding EXCEPT ![p] = FALSE]
            /\ lpc' = [lpc EXCEPT ![p] = "rel_close"]
            /\ UNCHANGED last_call
    /\ UNCHANGED <<svcVars, nameVars, lock_path, ninodes, content, lock_file>>

\* release(): nothing if self.lock_file is None; else fcntl.flock(fd, LOCK_UN)
RelUnlock(p) ==
    /\ lpc[p] = "idle"
    /\ IF lock_file[p] = 0
       THEN /\ last_call' = [last_call EXCEPT ![p] = NoOpRelease(@)]
            /\ UNCHANGED <<flock_owner, holding, lpc>>
       ELSE /\ flock_owner' = [flock_owner EXCEPT ![lock_file[p]] =
                                   IF @ = p THEN 0 ELSE @]
            /\ holding' = [holding EXCEPT ![p] = FALSE]
            /\ lpc' = [lpc EXCEPT ![p] = "rel_close"]
            /\ UNCHANGED last_call
    /\ UNCHANGED <<svcVars, nameVars, lock_path, ninodes, content, lock_file>>

\* self.lock_file.close(), and in the finally clause self.lock_file = None
RelClose(p) ==
    /\ lpc[p] = "rel_close"
    /\ lock_file' = [lock_file EXCEPT ![p] = 0]
    /\ lpc' = [lpc EXCEPT ![p] = "rel_unlink"]
    /\ UNCHANGED <<svcVars, nameVars, lock_path, ninodes, content, flock_owner, holding, last_call>>

\* os.unlink(self.lock_file_path), whatever file is at the path now
RelUnlink(p) ==
    /\ lpc[p] = "rel_unlink"
    /\ lock_path' = 0
    /\ last_call' = [last_call EXCEPT ![p] = "release"]
    /\ lpc' = [lpc EXCEPT ![p] = "idle"]
    /\ UNCHANGED <<svcVars, nameVars, ninodes, content, flock_owner, lock_file, holding>>

\* the process dies without release(): the OS closes its files, which drops
\* its flock; the lock file stays on disk
Crash(p) ==
    /\ lpc[p] \notin {"dead", "dead_holder"}
    /\ flock_owner' = [i \in Inodes |-> IF flock_owner[i] = p THEN 0 ELSE flock_owner[i]]
    /\ lock_file' = [lock_file EXCEPT ![p] = 0]
    /\ holding' = [holding EXCEPT ![p] = FALSE]
    /\ lpc' = [lpc EXCEPT ![p] = IF holding[p] THEN "dead_holder" ELSE "dead"]
    /\ UNCHANGED <<svcVars, nameVars, lock_path, ninodes, content, last_call>>

acquire(p) == AcqOpen(p) \/ AcqFlock(p) \/ AcqWrite(p) \/ AcqExcept(p)
release(p) == RelUnlock(p) \/ RelClose(p) \/ RelUnlink(p)

\* one caller of one service runs record_once() again and again
NextSeq == record_once(1) \/ PassStep(1)
SpecSeq == InitWith(Configs, Responses, TRUE, MaxPass) /\ [][NextSeq]_vars

\* the same passes with every fetch timed
NextStamp == record_once(1) \/ PassStepTimed(1)
SpecStamp == InitWith({<<U_south1>>, <<U_front, U_west>>}, FewResponses, FALSE, MaxPass) /\ [][NextStamp]_vars

\* one host thread starts and stops one service
NextLife == start(1) \/ stop(1) \/ \E w \in Workers : worker(w)
SpecLife == InitWith({<<U_front, U_west>>}, FewResponses, FALSE, MaxCycles) /\ [][NextLife]_vars

\* two host threads call start() on one service; nobody stops it
NextStart == start(1) \/ start(2) \/ \E w \in Workers : worker(w)
SpecStart == InitWith({<<U_south1>>}, FewResponses, FALSE, MaxCycles) /\ [][NextStart]_vars

\* create_app() in two processes: each builds its service and starts it
create_app(c) == start(c)
NextApp == create_app(1) \/ create_app(3) \/ \E w \in Workers : worker(w)
SpecApp == InitWith({<<U_south1>>}, FewResponses, FALSE, MaxCycles) /\ [][NextApp]_vars

\* the service as a host embeds it: a host thread calls start(), stop() and
\* record_once() while the workers it created run
Init == InitWith({<<U_south1>>}, FewResponses, FALSE, MaxCycles)
Next == start(1) \/ stop(1) \/ record_once(1) \/ PassStep(1)
            \/ \E w \in Workers : worker(w)
Spec == Init /\ [][Next]_vars

\* record_once() called from a second host thread of a service that the
\* first starts at some moment or never, on two-gate configurations
NextOnce == start(1) \/ record_once(2) \/ PassStep(2) \/ \E w \in Workers : worker(w)
SpecOnce == InitWith({<<U_front, U_west>>, <<U_SOUTH, U_front>>}, FewResponses, FALSE, MaxCycles) /\ [][NextOnce]_vars

\* the host calls start(), stop() and record_once() on a service built with
\* OLE_GATE_URLS empty or unset, or with one endpoint
SpecEmpty == InitWith({<<>>, <<U_south1>>}, FewResponses, FALSE, MaxCycles) /\ [][Next]_vars

\* the naming rule of the service and of the standalone poller, each applied
\* to one URL at one position
NameURLs == {U_south1, U_south2, U_SOUTH, U_west, U_WEST, U_front, U_southwest, U_spaced}
NamesInit ==
    /\ SvcInit({<<>>}, {}, FALSE, 0)
    /\ now = 1
    /\ LockInit
    /\ arg_url \in NameURLs
    /\ arg_index \in 0..MaxIndex
    /\ name_service = ""
    /\ name_standalone = ""
ResolveInService ==
    /\ name_service = ""
    /\ name_service' = get_gate_name(arg_url, arg_index)
    /\ UNCHANGED <<svcVars, lockVars, arg_url, arg_index, name_standalone>>
ResolveInStandalone ==
    /\ name_standalone = ""
    /\ name_standalone' = standalone_gate_name(arg_url, arg_index)
    /\ UNCHANGED <<svcVars, lockVars, arg_url, arg_index, name_service>>
NextNames == ResolveInService \/ ResolveInStandalone
SpecNames == NamesInit /\ [][NextNames]_vars

\* the same host and workers, with sensors whose counters change between
\* two fetches
SpecRace == InitWith({<<U_south1>>}, GoodResponses, FALSE, MaxCycles) /\ [][Next]_vars

\* one host thread starts and stops a service whose worker's passes may
\* end in an exception
NextCool == start(1) \/ stop(1) \/ \E w \in Workers : worker(w) \/ worker_except(w)
SpecCool == InitWith({<<U_south1>>}, FewResponses, FALSE, MaxCycles) /\ [][NextCool]_vars

\* a service started at any minute and second of the hour, its worker
\* waiting for the top of the hour and polling, the clock in seconds
ClockInit ==
    /\ SvcInit({<<U_south1>>}, {Resp(FALSE, 200, TRUE, Elem(5), Elem(120), Elem(80))}, FALSE, MaxCycles)
    /\ now \in 0..(SecondsPerHour - 1)
    /\ LockInit
    /\ NamesIdle
NextClock == start(1) \/ \E w \in Workers : HourCompute(w) \/ HourSleep(w) \/ PassStep(w)
SpecClock == ClockInit /\ [][NextClock]_vars

\* processes acquire and release the same lock_name, and may die
NextLock == \E p \in Procs : acquire(p) \/ release(p) \/ Crash(p)
SpecLock == InitWith({<<>>}, {}, FALSE, 0) /\ [][NextLock]_vars

TypeOK ==
    /\ gate_urls \in Configs
    /\ \A t \in Threads : pc[t] \in PassPcs \cup WaitPcs \cup
           {"idle", "unborn", "loop_head", "finished", "start_set",
            "start_spawn", "stop_join", "cooldown", "hour_sleep"}
    /\ \A k \in 1..Len(rows) : rows[k].timestamp < now
    /\ \A s \in Svcs : thread[s] \in Workers \cup {0}
    /\ budget >= 0

\* ------------------------------------------------------------------ claims
InPass(t) == pc[t] \in PassPcs

\* C1: every stored row's three diffs equal its counters minus those of the
\* row stored last before it for the same gate_name (signed), and the first
\* row of a gate has diffs 0 - whatever failed passes lie in between.
C1_DiffAgainstLastStored ==
    \A k \in 1..Len(rows) :
        LET prev == { j \in 1..(k - 1) : rows[j].gate_name = rows[k].gate_name }
        IN  IF prev = {}
            THEN /\ rows[k].alarm_diff = 0
                 /\ rows[k].incoming_diff = 0
                 /\ rows[k].outgoing_diff = 0
            ELSE LET j == CHOOSE m \in prev : \A n \in prev : n <= m
                 IN  /\ rows[k].alarm_diff = rows[k].alarm_count - rows[j].alarm_count
                     /\ rows[k].incoming_diff =
                            rows[k].incoming_patrons_count - rows[j].incoming_patrons_count
                     /\ rows[k].outgoing_diff =
                            rows[k].outgoing_patrons_count - rows[j].outgoing_patrons_count

\* a gate with a stored row, then a pass that stored nothing, then a row with
\* decreased counters
C1_Witness ==
    /\ gate_urls = <<U_south1>>
    /\ Len(rows) = 2
    /\ rows[2].timestamp = rows[1].timestamp + 2
    /\ rows[2].alarm_diff = -2
    /\ rows[2].incoming_diff = -10
    /\ rows[2].outgoing_diff = -5

\* C3: a pass that is over has processed every configured gate, in
\* configuration order, whatever failed on the way, and every gate whose
\* processing ended "ok" has its row in the store.
C3_FailureIsolation ==
    \A t \in Threads :
        /\ InPass(t) => Len(passlog[t]) = idx[t]
        /\ (~InPass(t) /\ passlog[t] # <<>>) => Len(passlog[t]) = Len(gate_urls)
        /\ \A k \in 1..Len(passlog[t]) :
              /\ passlog[t][k].gate_name = get_gate_name(gate_urls[k], k - 1)
              /\ passlog[t][k].outcome = "ok" =>
                    \E r \in 1..Len(rows) :
                        /\ rows[r].gate_name = passlog[t][k].gate_name
                        /\ rows[r].timestamp = passlog[t][k].timestamp

\* a finished pass whose first gate failed on a missing element and whose
\* second gate was stored
C3_Witness ==
    /\ pc[1] = "idle"
    /\ Len(passlog[1]) = 2
    /\ passlog[1][1].outcome = "missing_element"
    /\ passlog[1][2].outcome = "ok"
    /\ \E r \in 1..Len(rows) : rows[r].timestamp = passlog[1][2].timestamp

\* a response that carries three counters: no transport error, status 200,
\* well-formed, count0, count1 and count2 present with integer text
ValidResponse(r) ==
    /\ ~r.raised
    /\ r.status_code = 200
    /\ r.wellformed
    /\ \A e \in {r.count0, r.count1, r.count2} : e.present /\ e.isint

\* C4: the step in which a thread deals with an invalid response leaves the
\* store alone and ends that gate's processing; the store changes only by one
\* row appended by a thread that holds a valid response, with its counters.
C4_NoWriteOnFailure ==
    [][ /\ \A t \in Threads :
              (pc[t] = "parse" /\ ~ValidResponse(resp[t]) /\ pc'[t] # "parse") =>
                  (rows' = rows /\ pc'[t] \notin {"get_last", "insert"})
        /\ rows' # rows =>
              /\ Len(rows') = Len(rows) + 1
              /\ SubSeq(rows', 1, Len(rows)) = rows
              /\ \E t \in Threads :
                    /\ pc[t] = "insert"
                    /\ ValidResponse(resp[t])
                    /\ rows'[Len(rows')].alarm_count = resp[t].count0.val
                    /\ rows'[Len(rows')].incoming_patrons_count = resp[t].count1.val
                    /\ rows'[Len(rows')].outgoing_patrons_count = resp[t].count2.val
      ]_vars

\* a gate that answered 500 was skipped after a row had been stored, and the
\* row is still the only one
C4_Witness ==
    /\ Len(rows) = 1
    /\ \E t \in Threads : \E k \in 1..Len(passlog[t]) :
          /\ passlog[t][k].outcome = "bad_status"
          /\ passlog[t][k].timestamp > rows[1].timestamp

\* C6: one pass stores at most one row for any gate_name.
C6_OneRowPerGatePerPass ==
    \A t \in Threads : \A j, k \in 1..Len(passlog[t]) :
        (j < k /\ passlog[t][j].outcome = "ok" /\ passlog[t][k].outcome = "ok")
            => passlog[t][j].gate_name # passlog[t][k].gate_name

\* C5: at most one process (service) is executing a polling pass at any time.
C5_OnePollingProcess ==
    Cardinality({ s \in Svcs : \E w \in Workers : tsvc[w] = s /\ InPass(w) }) <= 1

\* C7: while nobody stops the service, start() calls, racing ones included,
\* create exactly one worker thread for it.
C7_OneWorkerPerStart ==
    \A s \in Svcs : Cardinality({ w \in Workers : tsvc[w] = s }) <= 1

\* C8: a worker that is in its hourly wait while the running flag is cleared
\* does not go on to a polling pass.
C8_StopDuringWait ==
    [][ \A w \in Workers :
            (pc[w] \in WaitPcs /\ ~running[tsvc[w]]) => pc'[w] \notin PassPcs ]_vars

\* C9: once stop() has cleared the flag while the worker was processing gate k
\* of a pass, the worker processes no gate after k in that pass.
C9_StopDuringPolling ==
    \A w \in Workers :
        (stopped_at[w] > 0 /\ InPass(w)) => idx[w] + 1 <= stopped_at[w]

\* C2: at most one process holds the lock at any instant.
C2_MutualExclusion == Cardinality({ p \in Procs : holding[p] }) <= 1

\* the lock is held, as far as acquire() and release() tell, by a process
\* other than p: its acquire() has taken the lock and it has not released it
HeldByOther(p) ==
    \E q \in Procs \ {p} : holding[q] \/ lpc[q] = "acq_write"

\* C10: an acquire() fails only while another live process holds the lock; a
\* lock file left on disk by a release()d or dead holder does not make it fail,
\* and an acquire() that got the lock returns True.
C10_LockAvailable ==
    [][ \A p \in Procs :
            /\ (lpc'[p] = "acq_except" /\ lpc[p] # "acq_except") => HeldByOther(p)
            /\ (lpc[p] = "acq_write" /\ lpc'[p] = "idle") => holding'[p]
      ]_vars

\* a holder died, its lock file is still the only file ever created and is
\* on disk, and another process has acquired the lock since
C10_Witness ==
    /\ ninodes = 1
    /\ lock_path = 1
    /\ \E q \in Procs : lpc[q] = "dead_holder"
    /\ \E p \in Procs : holding[p] /\ content[1] = p

\* the calls of release() that found self.lock_file None
NoOpCalls == {"release_never_acquired", "release_after_failed", "release_twice"}

\* C11: release() on a lock object that never acquired, whose acquire()
\* returned False or that was released already finds self.lock_file None and
\* changes nothing: no file is unlocked, closed or unlinked, whoever holds the
\* lock; so a second release() adds nothing to the first.
C11_ReleaseIdempotent ==
    [][ \A p \in Procs :
            /\ (lpc[p] = "idle" /\ last_call[p] \in {"acquire_false", "release"} \cup NoOpCalls)
                   => lock_file[p] = 0
            /\ (lpc[p] = "idle" /\ lock_file[p] = 0) => lpc'[p] \notin {"rel_close", "rel_unlink"}
            /\ (last_call'[p] # last_call[p] /\ last_call'[p] \in NoOpCalls)
                   => UNCHANGED <<lock_path, ninodes, content, flock_owner, lock_file, lpc, holding>>
      ]_vars

\* a process whose acquire() returned False has called release() while the
\* other process holds the lock: the file is on disk, locked, with the
\* holder's PID
C11_Witness ==
    \E p, q \in Procs :
        /\ p # q
        /\ last_call[p] = "release_after_failed"
        /\ lpc[p] = "idle"
        /\ holding[q]
        /\ lock_path # 0
        /\ flock_owner[lock_path] = q
        /\ content[lock_path] = q

\* C12: a record_once() call runs one pass in the calling thread and returns:
\* it starts at the first gate, goes through the configured gates one by one
\* in order, each once, and comes back to the host; none of its steps changes
\* running or thread or moves a worker, whether start() was called or not.
C12_RecordOnce ==
    [][ \A c \in Callers :
            /\ (pc[c] = "idle" /\ pc'[c] \in PassPcs) =>
                   (pc'[c] = "gate_begin" /\ idx'[c] = 0 /\ passlog'[c] = <<>>)
            /\ (pc[c] \in PassPcs /\ pc'[c] # pc[c]) =>
                   /\ running' = running /\ thread' = thread /\ tsvc' = tsvc
                   /\ \A w \in Workers : pc'[w] = pc[w]
                   /\ pc'[c] \in PassPcs \cup {"idle"}
                   /\ pc'[c] \in PassPcs \ {"gate_begin"} => idx'[c] = idx[c]
                   /\ pc'[c] = "gate_begin" =>
                          (idx'[c] = idx[c] + 1 /\ Len(passlog'[c]) = idx'[c])
                   /\ pc'[c] = "idle" =>
                          /\ idx[c] + 1 = Len(gate_urls)
                          /\ Len(passlog'[c]) = Len(gate_urls)
                          /\ \A k \in 1..Len(gate_urls) :
                                passlog'[c][k].gate_name = get_gate_name(gate_urls[k], k - 1)
      ]_vars

\* record_once() has returned after a pass over two gates, both stored, on
\* a started service whose worker is at the first gate of its own pass, which
\* it began after record_once() had taken its first timestamp
C12_Witness ==
    /\ pc[2] = "idle"
    /\ Len(passlog[2]) = 2
    /\ passlog[2][1].outcome = "ok" /\ passlog[2][2].outcome = "ok"
    /\ running[1] /\ thread[1] # 0
    /\ \E w \in Workers : InPass(w) /\ passlog[2][1].timestamp < ts[w] /\ idx[w] = 0
    /\ \A k \in 1..2 : \E r \in 1..Len(rows) :
          rows[r].timestamp = passlog[2][k].timestamp

\* C13: with no endpoint configured, whatever start(), stop() and
\* record_once() calls the host makes, each returns to the host, running
\* stays False, no worker thread exists, no thread is in a pass or holds a
\* response or a row read from the store, and the store is empty.
C13_EmptyConfigDisables ==
    gate_urls = <<>> =>
        /\ \A s \in Svcs : ~running[s] /\ thread[s] = 0
        /\ \A w \in Workers : pc[w] = "unborn"
        /\ \A c \in Callers : pc[c] = "idle"
        /\ \A t \in Threads : resp[t] = NoResp /\ last[t] = <<>> /\ ts[t] = 0
        /\ rows = <<>>
        /\ now = 1

\* all three methods have been called and have returned on a service
\* without endpoints
C13_Witness ==
    /\ gate_urls = <<>>
    /\ noop_calls = {"start", "stop", "record_once"}
    /\ pc[1] = "idle"

\* the rule as stated: "south" in any letter case, else "west" in any letter
\* case, else the position counted from 1
NameRule(url, position) ==
    IF contains(lower(url), W_south) THEN "FM South gate"
    ELSE IF contains(lower(url), W_west) THEN "FM West gate"
    ELSE "Gate " \o ToString(position + 1)

\* C14: the service and the standalone poller both name (url, position) by
\* the rule, and so give it the same name.
C14_GateNaming ==
    /\ name_service # "" => name_service = NameRule(arg_url, arg_index)
    /\ name_standalone # "" => name_standalone = NameRule(arg_url, arg_index)
    /\ (name_service # "" /\ name_standalone # "") => name_service = name_standalone

\* C15: the rows of one gate_name are stored in non-decreasing timestamp
\* order, also when the worker's passes interleave with record_once() calls.
C15_TimestampOrder ==
    \A j, k \in 1..Len(rows) :
        (j < k /\ rows[j].gate_name = rows[k].gate_name)
            => rows[j].timestamp <= rows[k].timestamp

\* C16: every row's diffs are its counters minus those of the row that was
\* the most recent of its gate_name (largest timestamp) in the store when it
\* was inserted, 0 if there was none - also when two threads process the
\* same gate at once.
C16_DiffBaselineAtInsert ==
    \A k \in 1..Len(rows) :
        LET prev == { j \in 1..(k - 1) : rows[j].gate_name = rows[k].gate_name }
        IN  IF prev = {}
            THEN /\ rows[k].alarm_diff = 0
                 /\ rows[k].incoming_diff = 0
                 /\ rows[k].outgoing_diff = 0
            ELSE LET j == CHOOSE m \in prev :
                              \A n \in prev : rows[n].timestamp <= rows[m].timestamp
                 IN  /\ rows[k].alarm_diff = rows[k].alarm_count - rows[j].alarm_count
                     /\ rows[k].incoming_diff =
                            rows[k].incoming_patrons_count - rows[j].incoming_patrons_count
                     /\ rows[k].outgoing_diff =
                            rows[k].outgoing_patrons_count - rows[j].outgoing_patrons_count

\* C17: an exception that leaves a pass of the worker puts the worker into the
\* 60-second cool-down and from there back to the head of its loop, where it
\* computes a new wait if running is still set; the worker ends only at a test
\* of the running flag that finds it cleared.
C17_BatchFailureRecovery ==
    [][ \A w \in Workers :
            /\ (pc[w] \in PassPcs /\ pc'[w] \notin PassPcs) =>
                   pc'[w] \in {"loop_head", "cooldown"}
            /\ (pc[w] # "cooldown" /\ pc'[w] = "cooldown") =>
                   (pc[w] \in PassPcs /\ s_left'[w] = CoolDownSeconds)
            /\ (pc[w] = "cooldown" /\ pc'[w] # "cooldown") => pc'[w] = "loop_head"
            /\ (pc[w] = "loop_head" /\ pc'[w] # "loop_head") =>
                   IF running[tsvc[w]]
                   THEN pc'[w] = "wait_check" /\ s_left'[w] \in 1..MaxWait
                   ELSE pc'[w] = "finished"
            /\ (pc[w] # "finished" /\ pc'[w] = "finished") =>
                   (~running[tsvc[w]] /\ pc[w] \in {"loop_head", "wait_check"})
      ]_vars

\* a worker whose last pass ended in an exception is past the cool-down and
\* in a new hourly wait
C17_Witness ==
    \E w \in Workers :
        /\ pc[w] \in WaitPcs
        /\ running[tsvc[w]]
        /\ passlog[w] # <<>>
        /\ passlog[w][Len(passlog[w])].outcome = "escaped"

\* C18: the wait computed at any minute and second is between 1 and 3600
\* seconds and ends on a top of the hour; so every pass of the worker starts
\* at or after the top of the hour that followed the computation, and no two
\* of its passes start in the same clock hour.
C18_HourlyAlignment ==
    /\ \A w \in Workers : pc[w] = "hour_sleep" =>
          /\ 1 <= s_left[w] /\ s_left[w] <= 3600
          /\ (Minute(wait_from) * 60 + Second(wait_from) + s_left[w]) % 3600 = 0
          /\ (wait_from + s_left[w]) % 3600 = 0
    /\ (pass_starts # <<>> /\ \E w \in Workers : InPass(w)) =>
          pass_starts[Len(pass_starts)] >= (Hour(wait_from) + 1) * 3600
    /\ \A j, k \in 1..Len(pass_starts) :
          j < k => Hour(pass_starts[j]) < Hour(pass_starts[k])

\* a service started at minute 59, second 59: the worker waited one second,
\* began a pass, waited again and began the next pass in the next clock hour
C18_Witness ==
    /\ Len(pass_starts) = 2
    /\ pass_starts[1] = 3600
    /\ Hour(pass_starts[2]) = 2
    /\ \E w \in Workers : InPass(w)

\* a worker thread that start() created and that has not ended
Alive(w) == pc[w] \notin {"unborn", "finished"}

\* C19: whatever start() and stop() calls are made on a service, at most one
\* of its worker threads is alive at any time.
C19_SingleLiveWorker ==
    \A s \in Svcs : Cardinality({ w \in Workers : tsvc[w] = s /\ Alive(w) }) <= 1

\* C20: while a process holds the lock, the lock file it has open and locked
\* contains its "PID: <pid>" line, whatever other processes attempt.
C20_HolderIdentity ==
    \A p \in Procs : holding[p] => content[lock_file[p]] = p

\* C21: the timestamp of every row that is stored is the instant at which the
\* fetch that produced its counters completed, or a later one; it is never an
\* instant before that fetch was issued.
C21_TimestampAtFetchCompletion ==
    [][ rows' # rows =>
            \E t \in Threads :
                /\ pc[t] = "insert" /\ pc'[t] # "insert"
                /\ rows'[Len(rows')].timestamp = ts[t]
                /\ rows'[Len(rows')].timestamp >= fetch_at[t]
      ]_vars

====
